---------------------------- MODULE Spec2Model ----------------------------
(***************************************************************************)
(* Authentication core of the user-management backend: the identity        *)
(* middleware (presentation/middleware/auth.py), the auth routes           *)
(* (presentation/api/auth_router.py), the per-request database session     *)
(* (infrastructure/database/base.py) and the user repository               *)
(* (infrastructure/repositories/user_repository_impl.py).                  *)
(*                                                                         *)
(* The token service, the credential hasher and the auth use cases are     *)
(* collaborators whose code is outside the modelled files; they are        *)
(* modelled from the design document (sections 4.1 - 4.3).                 *)
(***************************************************************************)
EXTENDS Integers, FiniteSets, Sequences, TLC

(***************************************************************************)
(* Bounds of the model.                                                    *)
(***************************************************************************)
MaxTime == 3
MaxPairs == 1

(***************************************************************************)
(* Configuration of the token service (access TTL << refresh TTL).         *)
(***************************************************************************)
ACCESS_TOKEN_TTL == 1
REFRESH_TOKEN_TTL == 2

Emails == {"a@x.com", "b@x.com"}
Usernames == {"alice", "bob"}
Passwords == {"secret1", "wrongpw"}

\* The sign-up requests of a run; request s creates the user with id s (each
\* request draws a fresh UUID).
Slots == {1, 2}
Ids == Slots

VARIABLES
    now,        \* wall clock read by the token service
    users,      \* committed rows of the users table
    req,        \* the sign-up requests, one per slot: where each stands, whether it
                \* raced with the other, the constraint its INSERT violated
    held,       \* tokens delivered to clients and still held by them
    last        \* the request completed by the latest step, with its response

vars == <<now, users, req, held, last>>

(***************************************************************************)
(* Values.                                                                 *)
(***************************************************************************)
NoUser == [id |-> 0, email |-> "", username |-> "", hashed_password |-> "",
           is_active |-> FALSE, created_at |-> 0, updated_at |-> 0]

NoToken == [sub |-> 0, kind |-> "none", exp |-> 0, sig |-> "none"]

\* A string that is no token at all.
GarbageToken == [sub |-> 0, kind |-> "garbage", exp |-> 0, sig |-> "none"]

NoPair == [access_token |-> NoToken, refresh_token |-> NoToken]

\* A token signed with a key that is not the service's.
ForgedToken ==
    [sub |-> 1, kind |-> "access", exp |-> MaxTime + REFRESH_TOKEN_TTL, sig |-> "forged"]

\* What a client may present as a token.
PresentableTokens == held \cup {ForgedToken, GarbageToken}

NoHeader == [scheme |-> "", credentials |-> NoToken]

\* The Authorization header of a request.
Headers ==
    {NoHeader, [scheme |-> "Basic", credentials |-> GarbageToken]}
        \cup [scheme : {"Bearer"}, credentials : PresentableTokens]

(***************************************************************************)
(* Credential hasher (design document 4.1).                                *)
(***************************************************************************)
hash_password(plaintext) == "hash(" \o plaintext \o ")"

verify_password(plaintext, hashed) == hashed = hash_password(plaintext)

(***************************************************************************)
(* Token service (design document 4.2).                                    *)
(***************************************************************************)
create_access_token(user_id, t) ==
    [sub |-> user_id, kind |-> "access", exp |-> t + ACCESS_TOKEN_TTL, sig |-> "ok"]

create_refresh_token(user_id, t) ==
    [sub |-> user_id, kind |-> "refresh", exp |-> t + REFRESH_TOKEN_TTL, sig |-> "ok"]

create_token_pair(user_id, t) ==
    [access_token |-> create_access_token(user_id, t),
     refresh_token |-> create_refresh_token(user_id, t)]

\* Signature, structure, expiry and kind; TRUE when the token is accepted.
verify_token(token, expected_kind, t) ==
    /\ token.kind \in {"access", "refresh"}
    /\ token.sig = "ok"
    /\ t <= token.exp
    /\ token.kind = expected_kind

\* The subject of a bearer (access) token, 0 (None) when verification fails.
get_user_id_from_token(token, t) ==
    IF verify_token(token, "access", t) THEN token.sub ELSE 0

(***************************************************************************)
(* User repository: queries over the committed rows.                       *)
(***************************************************************************)
get_by_id(rows, user_id) ==
    IF \E r \in rows : r.id = user_id
    THEN CHOOSE r \in rows : r.id = user_id
    ELSE NoUser

get_by_email(rows, email) ==
    IF \E r \in rows : r.email = email
    THEN CHOOSE r \in rows : r.email = email
    ELSE NoUser

get_by_username(rows, username) ==
    IF \E r \in rows : r.username = username
    THEN CHOOSE r \in rows : r.username = username
    ELSE NoUser

exists_by_email(rows, email) == \E r \in rows : r.email = email

exists_by_username(rows, username) == \E r \in rows : r.username = username


(***************************************************************************)
(* Results of dependencies and routes: status 200/201 is a normal return,  *)
(* anything else the HTTP error the request ends with.                     *)
(***************************************************************************)
Returned(user) == [status |-> 200, detail |-> "", user |-> user]

Raised(status_code, detail) == [status |-> status_code, detail |-> detail, user |-> NoUser]

\* The statuses with which the framework's bearer scheme refuses a request that
\* carries no usable Authorization header (403 on older builds, 401 on newer).
BearerRefusals == {403, 401}

\* security = HTTPBearer(): auto_error is left at its default (True), so a request
\* without "Authorization: Bearer <token>" is refused before the dependant runs.
security(header, refusal) ==
    IF header = NoHeader
    THEN [status |-> refusal, detail |-> "Not authenticated", credentials |-> NoToken]
    ELSE IF header.scheme # "Bearer"
    THEN [status |-> refusal, detail |-> "Invalid authentication credentials",
          credentials |-> NoToken]
    ELSE [status |-> 200, detail |-> "", credentials |-> header.credentials]

\* Calls a request may see fail unexpectedly.
Faults == {"none", "token_service", "user_store"}

\* The faults a request can meet: only the calls it makes can raise.  The token
\* service is called once credentials are extracted, the store once the token
\* has verified.
ReachableFaults(header, t) ==
    {f \in Faults :
        \/ f = "none"
        \/ f = "token_service" /\ header.scheme = "Bearer"
        \/ f = "user_store" /\ header.scheme = "Bearer"
                            /\ get_user_id_from_token(header.credentials, t) # 0}

(***************************************************************************)
(* Identity middleware.  Every result carries the number of store lookups  *)
(* (get_by_id calls) the resolution made.                                  *)
(***************************************************************************)
Lookups(result, n) ==
    [status |-> result.status, detail |-> result.detail, user |-> result.user,
     lookups |-> n]

get_current_user_optional(header, rows, t, fault, refusal) ==
    LET cred == security(header, refusal)
        user_id == get_user_id_from_token(cred.credentials, t)
        user == get_by_id(rows, user_id)
    IN  IF cred.status # 200 THEN Lookups(Raised(cred.status, cred.detail), 0)
        ELSE IF cred.credentials = NoToken THEN Lookups(Returned(NoUser), 0)
        ELSE IF fault = "token_service" THEN Lookups(Returned(NoUser), 0)
        ELSE IF user_id = 0 THEN Lookups(Returned(NoUser), 0)
        ELSE IF fault = "user_store" THEN Lookups(Returned(NoUser), 1)
        ELSE IF user = NoUser \/ ~user.is_active THEN Lookups(Returned(NoUser), 1)
        ELSE Lookups(Returned(user), 1)

\* Faulty variant: the subject is read from the token without verifying it.
get_current_user_unverified(header, rows, t, fault, refusal) ==
    LET cred == security(header, refusal)
        user == get_by_id(rows, cred.credentials.sub)
    IN  IF cred.status # 200 THEN Lookups(Raised(cred.status, cred.detail), 0)
        ELSE IF fault # "none" THEN Lookups(Raised(500, "Internal Server Error"), 1)
        ELSE IF user = NoUser \/ ~user.is_active
        THEN Lookups(Raised(401, "User not found or inactive"), 1)
        ELSE Lookups(Returned(user), 1)

\* Faulty variant: the active flag of the resolved user is not checked.
get_current_user_ignores_active(header, rows, t, fault, refusal) ==
    LET cred == security(header, refusal)
        user_id == get_user_id_from_token(cred.credentials, t)
        user == get_by_id(rows, user_id)
    IN  IF cred.status # 200 THEN Lookups(Raised(cred.status, cred.detail), 0)
        ELSE IF fault = "token_service" THEN Lookups(Raised(500, "Internal Server Error"), 0)
        ELSE IF user_id = 0
        THEN Lookups(Raised(401, "Invalid authentication credentials"), 0)
        ELSE IF fault = "user_store" THEN Lookups(Raised(500, "Internal Server Error"), 1)
        ELSE IF user = NoUser THEN Lookups(Raised(401, "User not found or inactive"), 1)
        ELSE Lookups(Returned(user), 1)

\* Faulty variant: the user named by the token is fetched before the token is
\* verified.
get_current_user_fetches_first(header, rows, t, fault, refusal) ==
    LET cred == security(header, refusal)
        user_id == get_user_id_from_token(cred.credentials, t)
        user == get_by_id(rows, user_id)
    IN  IF cred.status # 200 THEN Lookups(Raised(cred.status, cred.detail), 0)
        ELSE IF fault # "none" THEN Lookups(Raised(500, "Internal Server Error"), 1)
        ELSE IF user_id = 0
        THEN Lookups(Raised(401, "Invalid authentication credentials"), 1)
        ELSE IF user = NoUser \/ ~user.is_active
        THEN Lookups(Raised(401, "User not found or inactive"), 1)
        ELSE Lookups(Returned(user), 1)

get_current_user(header, rows, t, fault, refusal) ==
    LET cred == security(header, refusal)
        user_id == get_user_id_from_token(cred.credentials, t)
        user == get_by_id(rows, user_id)
    IN  IF cred.status # 200 THEN Lookups(Raised(cred.status, cred.detail), 0)
        ELSE IF cred.credentials = NoToken
        THEN Lookups(Raised(401, "Not authenticated"), 0)
        ELSE IF fault = "token_service" THEN Lookups(Raised(500, "Internal Server Error"), 0)
        ELSE IF user_id = 0
        THEN Lookups(Raised(401, "Invalid authentication credentials"), 0)
        ELSE IF fault = "user_store" THEN Lookups(Raised(500, "Internal Server Error"), 1)
        ELSE IF user = NoUser \/ ~user.is_active
        THEN Lookups(Raised(401, "User not found or inactive"), 1)
        ELSE Lookups(Returned(user), 1)

\* It uses the user it is handed and makes no lookup of its own.
get_current_active_user(current) ==
    IF current.status # 200 THEN current
    ELSE IF ~current.user.is_active
    THEN Lookups(Raised(400, "Inactive user"), current.lookups)
    ELSE current

(***************************************************************************)
(* UserRepositoryImpl.create and the errors it raises.                     *)
(***************************************************************************)
DuplicateEmail == "User with email already exists"

DuplicateUsername == "User with username already exists"

NoException == [type |-> "none", msg |-> ""]

\* The unique constraints of the users table that inserting `row` violates.
ViolatedConstraints(rows, row) ==
    {c \in {"email", "username"} :
        \E r \in rows : IF c = "email" THEN r.email = row.email
                        ELSE r.username = row.username}

\* str(e) of the IntegrityError of a failed INSERT, as the set of words in it:
\* the driver's message naming the violated constraint, then the statement
\* ("[SQL: INSERT INTO users (id, email, username, ...) VALUES (...)]").
str_IntegrityError(constraint) ==
    {"duplicate", "key", "violates", "unique", "constraint", constraint,
     "INSERT", "INTO", "users", "id", "email", "username", "hashed_password",
     "is_active", "created_at", "updated_at", "VALUES"}

\* Faulty variant: the IntegrityError is not translated and leaves create() as it is.
create_IntegrityError_untranslated(constraint) ==
    [type |-> "IntegrityError", msg |-> "IntegrityError"]

\* The exception create() ends with when the flush violates `constraint`.
create_IntegrityError(constraint) ==
    IF "email" \in str_IntegrityError(constraint)
    THEN [type |-> "ValueError", msg |-> DuplicateEmail]
    ELSE IF "username" \in str_IntegrityError(constraint)
    THEN [type |-> "ValueError", msg |-> DuplicateUsername]
    ELSE [type |-> "IntegrityError", msg |-> "IntegrityError"]

(***************************************************************************)
(* Auth use cases (design document 4.3).                                   *)
(***************************************************************************)
\* register_user step 1: the uniqueness check against the store.
register_user_check(rows, email, username) ==
    IF exists_by_email(rows, email)
    THEN [type |-> "ValueError", msg |-> DuplicateEmail]
    ELSE IF exists_by_username(rows, username)
    THEN [type |-> "ValueError", msg |-> DuplicateUsername]
    ELSE NoException

\* register_user steps 2-3: the entity handed to create(), active, secret hashed.
new_user(user_id, email, username, password, t) ==
    [id |-> user_id, email |-> email, username |-> username,
     hashed_password |-> hash_password(password), is_active |-> TRUE,
     created_at |-> t, updated_at |-> t]

InvalidCredentials == "Invalid credentials"

InvalidToken == "Invalid refresh token"

\* login_user: lookup by email or username, then the three checks, one error.
login_user(rows, identifier, password, t) ==
    LET by_email == get_by_email(rows, identifier)
        user == IF by_email # NoUser THEN by_email ELSE get_by_username(rows, identifier)
    IN  IF user = NoUser \/ ~user.is_active
           \/ ~verify_password(password, user.hashed_password)
        THEN [exc |-> [type |-> "ValueError", msg |-> InvalidCredentials],
              user |-> NoUser, tokens |-> NoPair]
        ELSE [exc |-> NoException, user |-> user,
              tokens |-> create_token_pair(user.id, t)]

\* refresh_token: verify the refresh token, rotate; the store is not consulted.
refresh_token_use_case(token, t) ==
    IF verify_token(token, "refresh", t)
    THEN [exc |-> NoException, tokens |-> create_token_pair(token.sub, t)]
    ELSE [exc |-> [type |-> "ValueError", msg |-> InvalidToken], tokens |-> NoPair]

(***************************************************************************)
(* Routes: the try/except of each handler.                                 *)
(***************************************************************************)
sign_up_response(exc) ==
    IF exc.type = "none" THEN [status |-> 201, detail |-> "User registered successfully"]
    ELSE IF exc.type = "ValueError" THEN [status |-> 400, detail |-> exc.msg]
    ELSE [status |-> 500, detail |-> "Internal server error during registration"]

\* Faulty variant: the ValueError of login is answered like that of sign-up, with 400.
login_response_bad_request(exc) ==
    IF exc.type = "none" THEN [status |-> 200, detail |-> "Login successful"]
    ELSE IF exc.type = "ValueError" THEN [status |-> 400, detail |-> exc.msg]
    ELSE [status |-> 500, detail |-> "Internal server error during login"]

login_response(exc) ==
    IF exc.type = "none" THEN [status |-> 200, detail |-> "Login successful"]
    ELSE IF exc.type = "ValueError" THEN [status |-> 401, detail |-> exc.msg]
    ELSE [status |-> 500, detail |-> "Internal server error during login"]

\* Faulty variant: the ValueError branch is missing, the generic handler answers.
refresh_response_generic(exc) ==
    IF exc.type = "none" THEN [status |-> 200, detail |-> ""]
    ELSE [status |-> 500, detail |-> "Internal server error during token refresh"]

refresh_response(exc) ==
    IF exc.type = "none" THEN [status |-> 200, detail |-> ""]
    ELSE IF exc.type = "ValueError" THEN [status |-> 401, detail |-> exc.msg]
    ELSE [status |-> 500, detail |-> "Internal server error during token refresh"]

(***************************************************************************)
(* The state machine.                                                      *)
(***************************************************************************)
IdleReq ==
    [pc |-> "idle", email |-> "", username |-> "", row |-> NoUser, raced |-> FALSE,
     violated |-> "", status |-> 0, detail |-> "", tokens |-> NoPair, sent |-> FALSE, closed |-> FALSE,
     handler |-> "", outcome |-> ""]

Idle == [op |-> "none"]

Init ==
    /\ now = 0
    /\ users = {}
    /\ req = [s \in Slots |-> IdleReq]
    /\ held = {}
    /\ last = Idle

\* The body of request s: request 1 registers alice, request 2 anyone.
SignUpInputs(s) ==
    IF s = 1 THEN {<<"a@x.com", "alice">>} ELSE Emails \X Usernames

\* The tokens of a response, kept by the client while it has room for them.
Keep(pair) ==
    IF Cardinality(held \cup {pair.access_token, pair.refresh_token}) <= 2 * MaxPairs
    THEN held \cup {pair.access_token, pair.refresh_token}
    ELSE held

Tick ==
    /\ last = Idle
    /\ now < MaxTime
    /\ now' = now + 1
    /\ UNCHANGED last
    /\ UNCHANGED <<users, req, held>>

(***************************************************************************)
(* POST /auth/signup, one step per await that touches the store:           *)
(* get_session opens the session, register_user checks uniqueness, then    *)
(* creates the user and issues the tokens; the handler's result is sent    *)
(* and the session dependency exits (commit or rollback, close).           *)
(***************************************************************************)
sign_up_begin(s) ==
    /\ last = Idle
    /\ req[s].pc = "idle"
    /\ \E in \in SignUpInputs(s) :
          req' = [req EXCEPT ![s].pc = "check", ![s].email = in[1], ![s].username = in[2]]
    /\ UNCHANGED last
    /\ UNCHANGED <<now, users, held>>

Collide(a, b) == a.email = b.email \/ a.username = b.username

sign_up_check(s) ==
    /\ last = Idle
    /\ req[s].pc = "check"
    /\ LET exc == register_user_check(users, req[s].email, req[s].username)
           resp == sign_up_response(exc)
           rivals == {o \in Slots \ {s} : req[o].pc = "create" /\ Collide(req[o], req[s])}
       IN  IF exc.type # "none"
           THEN req' = [req EXCEPT ![s].pc = "exit", ![s].status = resp.status,
                                   ![s].detail = resp.detail, ![s].handler = "raised"]
           ELSE req' = [o \in Slots |->
                          IF o = s THEN [req[s] EXCEPT !.pc = "create",
                                                       !.raced = (rivals # {})]
                          ELSE IF o \in rivals THEN [req[o] EXCEPT !.raced = TRUE]
                          ELSE req[o]]
    /\ UNCHANGED last
    /\ UNCHANGED <<now, users, held>>

\* Rows flushed by sessions that have neither committed nor rolled back.
Pending(s) ==
    {req[o].row : o \in {x \in Slots \ {s} : req[x].row # NoUser /\ ~req[x].closed}}

sign_up_create(s) ==
    /\ last = Idle
    /\ req[s].pc = "create"
    /\ LET row == new_user(s, req[s].email, req[s].username, "secret1", now)
           violated == ViolatedConstraints(users, row)
       IN  \* the INSERT waits for a transaction holding a conflicting key
           /\ \A p \in Pending(s) : ~Collide(p, row)
           /\ IF violated = {}
              THEN req' = [req EXCEPT ![s].pc = "exit", ![s].row = row,
                                      ![s].status = sign_up_response(NoException).status,
                                      ![s].detail = sign_up_response(NoException).detail,
                                      ![s].tokens = create_token_pair(row.id, now),
                                      ![s].handler = "returned"]
              ELSE \E c \in violated :
                     LET resp == sign_up_response(create_IntegrityError(c))
                     IN  req' = [req EXCEPT ![s].pc = "exit", ![s].violated = c,
                                            ![s].status = resp.status,
                                            ![s].detail = resp.detail,
                                            ![s].handler = "raised"]
    /\ UNCHANGED last
    /\ UNCHANGED <<now, users, held>>

\* register_user ends with an exception that is no ValueError after the row
\* was flushed (the store or the token service failing): the route answers 500
\* and the row stays in the open transaction.
sign_up_internal_error(s) ==
    /\ last = Idle
    /\ req[s].pc = "create"
    /\ LET row == new_user(s, req[s].email, req[s].username, "secret1", now)
           resp == sign_up_response([type |-> "Exception", msg |-> "internal"])
       IN  /\ \A p \in Pending(s) : ~Collide(p, row)
           /\ ViolatedConstraints(users, row) = {}
           /\ req' = [req EXCEPT ![s].pc = "exit", ![s].row = row,
                                 ![s].status = resp.status, ![s].detail = resp.detail,
                                 ![s].handler = "raised"]
    /\ UNCHANGED last
    /\ UNCHANGED <<now, users, held>>

\* What is left of a request once its response is sent and its session closed:
\* the status its client saw.
Finished(r) ==
    IF r.sent /\ r.closed
    THEN [IdleReq EXCEPT !.pc = "done", !.status = r.status, !.raced = r.raced,
                         !.sent = TRUE, !.closed = TRUE,
                         !.handler = r.handler, !.outcome = r.outcome]
    ELSE r

\* The response reaches the client.
send_response(s) ==
    /\ last = Idle
    /\ req[s].pc = "exit" /\ ~req[s].sent
    /\ req' = [req EXCEPT ![s] = Finished([@ EXCEPT !.sent = TRUE, !.tokens = NoPair])]
    /\ held' = IF req[s].status = 201 THEN Keep(req[s].tokens) ELSE held
    /\ UNCHANGED last
    /\ UNCHANGED <<now, users>>

\* Faulty variant: the session commits whatever it flushed, also when the
\* handler raised.
get_session_commits_always(s) ==
    /\ last = Idle
    /\ req[s].pc = "exit" /\ ~req[s].closed
    /\ LET commit == req[s].row # NoUser
       IN  /\ req' = [req EXCEPT ![s] = Finished([@ EXCEPT !.closed = TRUE, !.row = NoUser,
                           !.outcome = IF commit THEN "commit" ELSE "rollback"])]
           /\ users' = IF commit THEN users \cup {req[s].row} ELSE users
    /\ UNCHANGED last
    /\ UNCHANGED <<now, held>>

\* get_session after the yield: commit when the handler returned, rollback when
\* it raised, close in both cases.
get_session(s) ==
    /\ last = Idle
    /\ req[s].pc = "exit" /\ ~req[s].closed
    /\ LET commit == req[s].handler = "returned"
       IN  /\ req' = [req EXCEPT ![s] = Finished([@ EXCEPT !.closed = TRUE, !.row = NoUser,
                           !.outcome = IF commit THEN "commit" ELSE "rollback"])]
           /\ users' = IF commit THEN users \cup {req[s].row} ELSE users
    /\ UNCHANGED last
    /\ UNCHANGED <<now, held>>

\* get_session when session.commit() raises: the except branch rolls back and
\* re-raises, the session is closed; a response not yet sent becomes a 500.
get_session_commit_raises(s) ==
    /\ last = Idle
    /\ req[s].pc = "exit" /\ ~req[s].closed
    /\ req[s].handler = "returned"
    /\ req' = [req EXCEPT ![s] = Finished([@ EXCEPT !.closed = TRUE, !.row = NoUser,
                    !.outcome = "rollback",
                    !.status = IF req[s].sent THEN @ ELSE 500,
                    !.tokens = IF req[s].sent THEN @ ELSE NoPair])]
    /\ UNCHANGED last
    /\ UNCHANGED <<now, users, held>>

(***************************************************************************)
(* Repository writes made by other requests, each in its own session.      *)
(***************************************************************************)
\* Faulty variant: the row is replaced by the entity, created_at included.
update_replaces_row(rows, user) ==
    {IF r.id = user.id THEN user ELSE r : r \in rows}

\* UPDATE users SET email, username, hashed_password, is_active, updated_at
\* WHERE id = user.id: no row with that id, no row changed.
update(rows, user) ==
    {IF r.id = user.id
     THEN [r EXCEPT !.email = user.email, !.username = user.username,
                    !.hashed_password = user.hashed_password,
                    !.is_active = user.is_active,
                    !.updated_at = user.updated_at]
     ELSE r : r \in rows}

delete(rows, user_id) == {r \in rows : r.id # user_id}

SetActive ==
    /\ last = Idle
    /\ \E r \in users, active \in BOOLEAN :
          /\ r.is_active # active
          /\ users' = update(users, [r EXCEPT !.is_active = active])
    /\ UNCHANGED last
    /\ UNCHANGED <<now, req, held>>

\* The usernames a caller can put in an entity: the repository takes any str.
EntityUsernames == Usernames \cup {"Alice"}

\* The password and active flag of an entity, changed together to keep the
\* entities few.
Profiles == {<<"secret1", TRUE>>, <<"wrongpw", FALSE>>}

\* The entities update() is called with: any id, new field values, and the
\* timestamps of an entity built now (update() never reads created_at).
Entities ==
    {[id |-> i, email |-> e, username |-> u, hashed_password |-> hash_password(p[1]),
      is_active |-> p[2], created_at |-> now, updated_at |-> now] :
        i \in Ids, e \in Emails, u \in EntityUsernames, p \in Profiles}

\* update(user) in a session of its own.  The statement waits for a
\* transaction holding a conflicting key; it raises IntegrityError when
\* another row has the email or the username, and scalar_one() raises
\* NoResultFound when no row has the id: the session is then rolled back.
update_user(user) ==
    /\ last = Idle
    /\ LET others == {r \in users : r.id # user.id}
           error == IF get_by_id(users, user.id) = NoUser THEN "NoResultFound"
                    ELSE IF ViolatedConstraints(others, user) # {} THEN "IntegrityError"
                    ELSE ""
       IN  /\ \A p \in Pending(0) : ~Collide(p, user)
           /\ users' = IF error = "" THEN update(users, user) ELSE users
    /\ UNCHANGED <<now, req, held>>

UpdateUser == \E user \in Entities : update_user(user) /\ UNCHANGED last

\* The same call, with the entity and the table it met kept for inspection.
update_call ==
    \E user \in Entities :
        /\ update_user(user)
        /\ last' = [op |-> "update", user |-> user, before |-> users]

\* The rows a users table can hold at time t.
Rows(t) ==
    {[id |-> i, email |-> e, username |-> u, hashed_password |-> hash_password(p[1]),
      is_active |-> p[2], created_at |-> c[1], updated_at |-> c[2]] :
        i \in Ids, e \in Emails, u \in EntityUsernames, p \in Profiles,
        c \in {d \in (0..t) \X (0..t) : d[1] <= d[2]}}

\* The users tables at time t: ids, emails and usernames are unique keys.
Tables(t) ==
    {{}} \cup {{a} : a \in Rows(t)}
         \cup {{p[1], p[2]} : p \in {q \in Rows(t) \X Rows(t) :
                                       /\ q[1].id < q[2].id
                                       /\ ViolatedConstraints({q[1]}, q[2]) = {}}}

\* update() is a function of the table and the entity: it is run on every table.
InitUpdate ==
    /\ now \in 0..MaxTime
    /\ users \in Tables(now)
    /\ req = [s \in Slots |-> IdleReq]
    /\ held = {}
    /\ last = Idle

DeleteUser ==
    /\ last = Idle
    /\ \E r \in users : users' = delete(users, r.id)
    /\ UNCHANGED last
    /\ UNCHANGED <<now, req, held>>

(***************************************************************************)
(* Single-step requests: they only read the store.  `last` holds the      *)
(* request and its response until the request is over.                     *)
(***************************************************************************)
get_current_user_info ==
    /\ last = Idle
    /\ \E header \in Headers, refusal \in BearerRefusals :
       \E fault \in ReachableFaults(header, now) :
          LET current == get_current_user(header, users, now, fault, refusal)
              res == get_current_active_user(current)
          IN  last' = [op |-> "me", header |-> header, fault |-> fault,
                       current |-> current,
                       status |-> res.status, detail |-> res.detail, user |-> res.user,
                       lookups |-> res.lookups]
    /\ UNCHANGED <<now, users, req, held>>

resolve_optional ==
    /\ last = Idle
    /\ \E header \in Headers, refusal \in BearerRefusals :
       \E fault \in ReachableFaults(header, now) :
          LET res == get_current_user_optional(header, users, now, fault, refusal)
          IN  last' = [op |-> "optional", header |-> header, fault |-> fault,
                       status |-> res.status, detail |-> res.detail, user |-> res.user,
                       lookups |-> res.lookups]
    /\ UNCHANGED <<now, users, req, held>>

login ==
    /\ last = Idle
    /\ \E identifier \in Emails \cup Usernames, password \in Passwords :
          LET result == login_user(users, identifier, password, now)
              resp == login_response(result.exc)
          IN  /\ last' = [op |-> "login", identifier |-> identifier,
                          password |-> password, status |-> resp.status,
                          detail |-> resp.detail, user |-> result.user,
                          tokens |-> result.tokens]
              /\ held' = IF resp.status = 200 THEN Keep(result.tokens) ELSE held
    /\ UNCHANGED <<now, users, req>>

\* Faulty variant: the route looks the subject up and refuses a missing or inactive user.
refresh_token_rechecks_user ==
    /\ last = Idle
    /\ \E token \in PresentableTokens :
          LET result == refresh_token_use_case(token, now)
              user == get_by_id(users, token.sub)
              known == user # NoUser /\ user.is_active
              resp == IF known THEN refresh_response(result.exc)
                      ELSE [status |-> 401, detail |-> "User not found or inactive"]
              tokens == IF known THEN result.tokens ELSE NoPair
          IN  /\ last' = [op |-> "refresh", token |-> token, status |-> resp.status,
                          detail |-> resp.detail, tokens |-> tokens]
              /\ held' = IF resp.status = 200 THEN Keep(tokens) ELSE held
    /\ UNCHANGED <<now, users, req>>

refresh_token ==
    /\ last = Idle
    /\ \E token \in PresentableTokens :
          LET result == refresh_token_use_case(token, now)
              resp == refresh_response(result.exc)
          IN  /\ last' = [op |-> "refresh", token |-> token, status |-> resp.status,
                          detail |-> resp.detail, tokens |-> result.tokens]
              /\ held' = IF resp.status = 200 THEN Keep(result.tokens) ELSE held
    /\ UNCHANGED <<now, users, req>>

\* POST /auth/logout: the server keeps no record; the client discards its tokens.
logout ==
    /\ last = Idle
    /\ \E t \in held : held' = {x \in held : x.sub # t.sub}
    /\ last' = [op |-> "logout", status |-> 200,
                detail |-> "Logout successful. Please discard your tokens."]
    /\ UNCHANGED <<now, users, req>>

\* The single-step request is over: its session is closed, its response sent.
request_end ==
    /\ last # Idle
    /\ last' = Idle
    /\ UNCHANGED <<now, users, req, held>>

(***************************************************************************)
(* Specifications.  Every one runs the sign-up requests step by step; they *)
(* differ in which other requests arrive.                                  *)
(***************************************************************************)
SignUp ==
    \/ \E s \in Slots : sign_up_begin(s)
    \/ \E s \in Slots : sign_up_check(s)
    \/ \E s \in Slots : sign_up_create(s)
    \/ \E s \in Slots : send_response(s)
    \/ \E s \in Slots : get_session(s)

\* Identity resolution and token refresh, with users deactivated and deleted.
Next ==
    \/ Tick
    \/ SignUp
    \/ SetActive
    \/ DeleteUser
    \/ get_current_user_info
    \/ resolve_optional
    \/ refresh_token
    \/ logout
    \/ request_end

Spec == Init /\ [][Next]_vars

\* Login, with users deactivated and deleted.
NextLogin ==
    \/ Tick
    \/ SignUp
    \/ SetActive
    \/ DeleteUser
    \/ login
    \/ logout
    \/ request_end

SpecLogin == Init /\ [][NextLogin]_vars

\* Registration alone: the two sign-up requests and the use of their tokens.
NextSignUp ==
    \/ Tick
    \/ SignUp
    \/ get_current_user_info
    \/ request_end

SpecSignUp == Init /\ [][NextSignUp]_vars

\* The user store under registrations, updates and deletes.
NextStore ==
    \/ Tick
    \/ SignUp
    \/ UpdateUser
    \/ DeleteUser

SpecStore == Init /\ [][NextStore]_vars

\* update() on every users table.
NextUpdate ==
    \/ update_call
    \/ request_end

SpecUpdate == InitUpdate /\ [][NextUpdate]_vars

\* Registration with failures inside the handler and at commit.
NextSession ==
    \/ Tick
    \/ SignUp
    \/ \E s \in Slots : sign_up_internal_error(s)
    \/ \E s \in Slots : get_session_commit_raises(s)

SpecSession == Init /\ [][NextSession]_vars

(***************************************************************************)
(* Properties.  `last` is read in the state right after the request it     *)
(* records, where the store and the clock are still those the request saw. *)
(***************************************************************************)
\* A token the service issued (its signature verifies).
Issued(token) == token.sig = "ok" /\ token.kind \in {"access", "refresh"}

Bearer(header, kind) ==
    header.scheme = "Bearer" /\ Issued(header.credentials) /\ header.credentials.kind = kind

\* C1: optional identity resolution, bearer extraction included, ends every
\* request with a user or with "no identity", never with an error.
C1_OptionalNeverFails ==
    last.op = "optional" => last.status = 200

\* C2: required identity resolution either returns a stored, active user whose
\* id is the token's subject, or fails with 401 (token absent, invalid or
\* expired, user not found, user inactive).
C2_RequiredTwoOutcomes ==
    (last.op = "me" /\ last.fault = "none") =>
        \/ /\ last.current.status = 200
           /\ last.current.user \in users
           /\ last.current.user.is_active
           /\ last.current.user.id = last.header.credentials.sub
        \/ last.current.status = 401

\* C3: token kind is enforced at every point of use: a refresh token presented
\* as bearer token is rejected by the required variant and yields no identity
\* in the optional variant; an access token presented to refresh is rejected
\* with InvalidToken and nothing is issued.
C3_TokenKindEnforced ==
    /\ (last.op = "me" /\ Bearer(last.header, "refresh")) =>
           /\ last.current.status # 200
           /\ last.fault = "none" => last.current.status = 401
    /\ (last.op = "optional" /\ Bearer(last.header, "refresh")) =>
           last.status = 200 /\ last.user = NoUser
    /\ (last.op = "refresh" /\ Issued(last.token) /\ last.token.kind = "access") =>
           last.status = 401 /\ last.detail = InvalidToken /\ last.tokens = NoPair

\* An unexpired refresh token of a stored, active user is presented as bearer token.
C3_Witness ==
    /\ last.op = "me" /\ last.fault = "none"
    /\ Bearer(last.header, "refresh")
    /\ last.header.credentials \in held
    /\ now <= last.header.credentials.exp
    /\ get_by_id(users, last.header.credentials.sub).is_active
    /\ last.current.status = 401

\* C4: a uniqueness violation met at write time makes registration fail with
\* DuplicateUser naming the field that collided (username constraint: duplicate
\* username; email constraint: duplicate email), never with a generic 500.
C4_WriteTimeDuplicateNamesField ==
    \A s \in Slots :
        (req[s].pc = "exit" /\ req[s].violated # "") =>
            /\ req[s].status = 400
            /\ req[s].detail = IF req[s].violated = "email" THEN DuplicateEmail
                               ELSE DuplicateUsername

Raced == \A s \in Slots : req[s].raced

\* C5: of two registrations that both pass the existence check before either
\* inserts, with the same email or the same username, exactly one succeeds and
\* commits its user, the other fails with DuplicateUser (400, never 500), and
\* the store ends with exactly one user.
C5_ConcurrentRegistration ==
    Raced =>
        /\ \A s \in Slots :
              /\ req[s].pc \in {"exit", "done"} => req[s].status \in {201, 400}
              /\ (req[s].pc = "exit" /\ req[s].status = 400) =>
                     req[s].detail \in {DuplicateEmail, DuplicateUsername}
        /\ (\A s \in Slots : req[s].pc = "done") =>
              \E w \in Slots :
                  /\ req[w].status = 201
                  /\ \A o \in Slots \ {w} : req[o].status = 400
                  /\ Cardinality(users) = 1
                  /\ \A r \in users : r.id = w

\* Both racing requests are over.
C5_Witness ==
    Raced /\ \A s \in Slots : req[s].pc = "done"

\* C6: after a successful registration, the returned access token, presented
\* to required identity resolution before it expires, resolves to the new user:
\* the user is committed and visible by the time the token can be used.
C6_TokenResolvesToNewUser ==
    (/\ last.op = "me" /\ last.fault = "none"
     /\ Bearer(last.header, "access")
     /\ last.header.credentials \in held
     /\ now <= last.header.credentials.exp) =>
        /\ last.current.status = 200
        /\ last.current.user.id = last.header.credentials.sub

\* The users the identifier of a login names (by email or by username).
Named(identifier) == {r \in users : r.email = identifier \/ r.username = identifier}

\* C7: login fails with one and the same InvalidCredentials error (type, status
\* and message) when the identifier matches no user, when the user is inactive,
\* and when the user is active but the password does not verify.
C7_LoginFailuresIdentical ==
    (/\ last.op = "login"
     /\ \/ Named(last.identifier) = {}
        \/ \E r \in Named(last.identifier) : ~r.is_active
        \/ \E r \in Named(last.identifier) :
              r.is_active /\ r.hashed_password # hash_password(last.password)) =>
        /\ last.status = 401
        /\ last.detail = InvalidCredentials
        /\ last.user = NoUser
        /\ last.tokens = NoPair

\* An inactive user logs in with the right password.
C7_Witness ==
    /\ last.op = "login"
    /\ \E r \in Named(last.identifier) :
          ~r.is_active /\ r.hashed_password = hash_password(last.password)
    /\ last.status = 401

\* C8: an issued access token with subject u is accepted as u at any time
\* before its expiry and rejected as invalid at any time after it, by the token
\* service and so by the identity middleware.
C8_AccessTokenLifetime ==
    /\ \A token \in held :
          token.kind = "access" =>
              /\ now < token.exp => get_user_id_from_token(token, now) = token.sub
              /\ now > token.exp => get_user_id_from_token(token, now) = 0
    /\ (last.op = "me" /\ last.fault = "none" /\ Bearer(last.header, "access")) =>
          /\ now < last.header.credentials.exp =>
                \/ /\ last.current.status = 200
                   /\ last.current.user.id = last.header.credentials.sub
                \/ /\ get_by_id(users, last.header.credentials.sub).is_active = FALSE
                   /\ last.current.status = 401
                   /\ last.current.detail = "User not found or inactive"
          /\ now > last.header.credentials.exp =>
                /\ last.current.status = 401
                /\ last.current.detail = "Invalid authentication credentials"

\* The expired access token of a stored, active user is presented and refused.
C8_Witness ==
    /\ last.op = "me" /\ last.fault = "none"
    /\ Bearer(last.header, "access")
    /\ now > last.header.credentials.exp
    /\ get_by_id(users, last.header.credentials.sub).is_active
    /\ last.current.status = 401

ValidRefresh(token, t) == Issued(token) /\ token.kind = "refresh" /\ t <= token.exp

\* C9: refresh with a valid, unexpired refresh token of subject u returns a new
\* pair whose access token verifies to u and whose refresh token can be used
\* for a further refresh for u; with any other token it fails with
\* InvalidToken and issues nothing.
C9_RefreshRotates ==
    last.op = "refresh" =>
        IF ValidRefresh(last.token, now)
        THEN /\ last.status = 200
             /\ get_user_id_from_token(last.tokens.access_token, now) = last.token.sub
             /\ ValidRefresh(last.tokens.refresh_token, now)
             /\ last.tokens.refresh_token.sub = last.token.sub
             /\ refresh_token_use_case(last.tokens.refresh_token, now).exc = NoException
        ELSE /\ last.status = 401
             /\ last.detail = InvalidToken
             /\ last.tokens = NoPair

\* A refresh token is rotated after the clock has moved past its issue.
C9_Witness ==
    /\ last.op = "refresh" /\ last.status = 200
    /\ last.token \in held
    /\ last.tokens.refresh_token.exp > last.token.exp

\* C10: refresh does not consult the user store: a valid, unexpired refresh
\* token mints a new pair also when its subject has been deleted or
\* deactivated since the token was issued.
C10_RefreshIgnoresStore ==
    (/\ last.op = "refresh"
     /\ ValidRefresh(last.token, now)
     /\ ~get_by_id(users, last.token.sub).is_active) =>
        /\ last.status = 200
        /\ last.tokens = create_token_pair(last.token.sub, now)

\* A deactivated user's refresh token mints a new pair.
C10_Witness ==
    /\ last.op = "refresh" /\ last.status = 200
    /\ \E r \in users : r.id = last.token.sub /\ ~r.is_active

\* C14: the optional and the required variant agree on every bearer token and
\* store state: the optional variant returns a user exactly when the required
\* one succeeds, and then the same user; it returns "no identity" exactly when
\* the required one fails.
C14_OptionalMatchesRequired ==
    last.op = "optional" =>
        \A refusal \in BearerRefusals :
            LET required == get_current_user(last.header, users, now, last.fault, refusal)
                identity == last.status = 200 /\ last.user # NoUser
                no_identity == last.status = 200 /\ last.user = NoUser
            IN  /\ identity <=> required.status = 200
                /\ identity => last.user = required.user
                /\ no_identity <=> required.status # 200

\* C15: GET /auth/me never ends with 400 "Inactive user": the user handed to
\* get_current_active_user is always active, and the request of a deactivated
\* user ends with 401.
C15_InactiveUserUnreachable ==
    last.op = "me" =>
        /\ last.status # 400
        /\ last.current.status = 200 => last.current.user.is_active
        /\ (/\ last.fault = "none"
            /\ Bearer(last.header, "access")
            /\ now <= last.header.credentials.exp
            /\ \E r \in users : r.id = last.header.credentials.sub /\ ~r.is_active) =>
               last.status = 401

\* A deactivated user presents an unexpired access token.
C15_Witness ==
    /\ last.op = "me" /\ last.fault = "none"
    /\ Bearer(last.header, "access")
    /\ now <= last.header.credentials.exp
    /\ \E r \in users : r.id = last.header.credentials.sub /\ ~r.is_active
    /\ last.status = 401

\* C16: an identity resolution makes at most one store lookup: exactly one
\* when the token verifies to a subject, none when the token is missing or
\* invalid; nothing is kept between requests, so the outcome follows the
\* active flag the store holds when the request is made.
C16_OneLookupPerRequest ==
    last.op \in {"me", "optional"} =>
        LET verifies == /\ last.header.scheme = "Bearer"
                        /\ last.fault # "token_service"
                        /\ get_user_id_from_token(last.header.credentials, now) # 0
            stored == get_by_id(users, last.header.credentials.sub)
        IN  /\ last.lookups = IF verifies THEN 1 ELSE 0
            /\ (verifies /\ last.fault = "none") =>
                   /\ (last.status = 200 /\ last.user # NoUser) <=> stored.is_active
                   /\ stored.is_active => last.user = stored

\* The request of a deactivated user who still holds a token makes its one
\* lookup, sees the flag and is refused.
C16_Witness ==
    /\ last.op = "me" /\ last.fault = "none" /\ last.lookups = 1
    /\ last.header.credentials \in held
    /\ \E r \in users : r.id = last.header.credentials.sub /\ ~r.is_active
    /\ last.status = 401


\* C13: the session of a request is all-or-nothing.  A session that is closed
\* either committed or rolled back; it committed only if the handler returned
\* and rolled back if the handler raised; the row of a request is among the
\* stored users exactly when its session committed, so a registration that
\* ended in an error (400 or 500) or is still open has stored nothing.
C13_SessionAllOrNothing ==
    \A s \in Slots :
        LET stored == \E r \in users : r.id = s
        IN  /\ req[s].closed => req[s].outcome \in {"commit", "rollback"}
            /\ ~req[s].closed => req[s].outcome = ""
            /\ req[s].outcome = "commit" => req[s].handler = "returned"
            /\ (req[s].closed /\ req[s].handler = "raised") => req[s].outcome = "rollback"
            /\ req[s].pc = "done" => req[s].closed
            /\ stored <=> req[s].outcome = "commit"
            /\ req[s].status \in {400, 500} => ~stored

\* A registration that flushed its row and then failed is closed, rolled back,
\* and stored nothing, while the other registration was committed.
C13_Witness ==
    \E s \in Slots :
        /\ req[s].closed /\ req[s].status = 500 /\ req[s].outcome = "rollback"
        /\ ~\E r \in users : r.id = s
        /\ \E o \in Slots \ {s} : req[o].outcome = "commit" /\ \E r \in users : r.id = o

\* The case-normalized form of an email or a username.
Normalized(str) == IF str = "Alice" THEN "alice" ELSE str

\* C11: no two stored users share an email or a username, compared in
\* case-normalized form.
C11_NormalizedUnique ==
    \A a \in users : \A b \in users \ {a} :
        /\ Normalized(a.email) # Normalized(b.email)
        /\ Normalized(a.username) # Normalized(b.username)

\* C12: update(user) leaves every record with another id as it was, creates
\* and removes none, and in the record with user.id keeps id and created_at
\* and sets the other five fields to the entity's (or, raising, changes nothing).
C12_UpdateFrame ==
    last.op = "update" =>
        LET user == last.user
            before == last.before
        IN  /\ {r \in users : r.id # user.id} = {r \in before : r.id # user.id}
            /\ {r.id : r \in users} = {r.id : r \in before}
            /\ Cardinality(users) = Cardinality(before)
            /\ \A old \in before : old.id = user.id =>
                  \/ old \in users
                  \/ [old EXCEPT !.email = user.email, !.username = user.username,
                                 !.hashed_password = user.hashed_password,
                                 !.is_active = user.is_active,
                                 !.updated_at = user.updated_at] \in users

\* An update of one of two stored users with an entity that differs from the
\* stored row in username, password hash, active flag and both timestamps:
\* the written fields are the entity's, created_at is the stored one.
C12_Witness ==
    /\ last.op = "update"
    /\ Cardinality(users) = 2
    /\ LET old == get_by_id(last.before, last.user.id)
           new == get_by_id(users, last.user.id)
       IN  /\ old # NoUser
           /\ old.username # last.user.username
           /\ old.hashed_password # last.user.hashed_password
           /\ old.is_active # last.user.is_active
           /\ old.updated_at # last.user.updated_at
           /\ old.created_at # last.user.created_at
           /\ new.username = last.user.username
           /\ new.hashed_password = last.user.hashed_password
           /\ new.is_active = last.user.is_active
           /\ new.updated_at = last.user.updated_at
           /\ new.created_at = old.created_at
====
